---- MODULE Spec2Model ----
(***************************************************************************)
(* Model of the security core of the Agntor MCP audit server:              *)
(*   - verifyApiKey, the Express middleware of src/src/server.ts, run by   *)
(*     concurrent requests against the shared apiKeys table;               *)
(*   - getAgentRecord and the tools is_agent_certified,                    *)
(*     issue_audit_ticket and activate_kill_switch of src/src/index.ts,    *)
(*     run against an upstream agent record that changes under them.       *)
(*                                                                         *)
(* Time is counted in days: Date.now() and new Date() read `clock`.        *)
(* An optional JavaScript value is None (undefined) or Some(v).            *)
(***************************************************************************)
EXTENDS Integers, Sequences, FiniteSets, TLC

VARIABLES
    ADMIN_API_KEY,  \* process.env.AGNTOR_API_KEY, fixed at process start
    apiKeys,        \* the apiKeys table: key string -> row
    writeLog,       \* history: lastUsedAt values committed, per key, in order
    req,            \* one verifyApiKey activation per request
    clock,          \* the wall clock
    upstream,       \* the agent as the trust backend holds it
    call            \* the tool call in progress

vars == <<ADMIN_API_KEY, apiKeys, writeLog, req, clock, upstream, call>>

authVars == <<ADMIN_API_KEY, apiKeys, writeLog, req>>
toolVars == <<upstream, call>>

-----------------------------------------------------------------------------
(* Bounds *)

MaxTicks == 2       \* one-day clock steps taken in a run
MaxJumps == 1       \* one-year clock jumps taken in a run
MaxSkew == 1        \* days that pass between two Date.now() reads of one call

Requests == {"r1", "r2"}

-----------------------------------------------------------------------------
(* JavaScript values *)

None == <<>>
Some(v) == <<v>>

\* truthiness of an optional string: undefined and "" are falsy
TruthyStr(o) == o # None /\ o[1] # ""

\* a || b on optional strings
OrElse(a, b) == IF TruthyStr(a) THEN a ELSE b

\* String.prototype.startsWith
startsWith(s, p) == Len(s) >= Len(p) /\ SubSeq(s, 1, Len(p)) = p

\* String.prototype.slice(n), 0 <= n
slice(s, n) == IF n >= Len(s) THEN "" ELSE SubSeq(s, n + 1, Len(s))

-----------------------------------------------------------------------------
(* verifyApiKey: src/src/server.ts *)

\* header?.startsWith('Bearer ') ? header.slice(7) : header
TokenOf(header) ==
    IF header = None THEN None
    ELSE IF startsWith(header[1], "Bearer ") THEN Some(slice(header[1], 7))
    ELSE header

\* req.header('x-agntor-api-key') || req.header('authorization')
HeaderOf(xkey, auth) == OrElse(xkey, auth)

\* The rows the key store holds when the server starts. No code of the server
\* inserts a row or changes isActive; only lastUsedAt is written.
SeedKeys ==
    [id \in {1, 2} |->
        IF id = 1 THEN [id |-> 1, key |-> "k1", isActive |-> TRUE, lastUsedAt |-> None]
        ELSE [id |-> 2, key |-> "k2", isActive |-> FALSE, lastUsedAt |-> None]]

\* Values of process.env.AGNTOR_API_KEY
AdminKeys == {None, Some(""), Some("adm")}

\* Values of the x-agntor-api-key header
XKeyHeaders == {None, Some(""), Some("adm"), Some("k1"), Some("k2")}

\* Values of the authorization header
AuthHeaders == {None, Some("Bearer adm"), Some("Bearer k1"), Some("Bearer zz"),
                Some("Bearer "), Some("k1"), Some("adm")}

\* db.query.apiKeys.findFirst({ where: eq(apiKeys.key, token) })
findFirst_unusedOnly(table, token) ==
    LET hits == {id \in DOMAIN table :
                    table[id].key = token /\ table[id].lastUsedAt = None}
    IN  IF hits = {} THEN None
        ELSE Some(table[CHOOSE id \in hits : \A other \in hits : id <= other])

findFirst(table, token) ==
    LET hits == {id \in DOMAIN table : table[id].key = token}
    IN  IF hits = {} THEN None
        ELSE Some(table[CHOOSE id \in hits : \A other \in hits : id <= other])

\* the two ways the middleware answers
Next_ == [out |-> "next", status |-> 0, message |-> ""]
Json401(msg) == [out |-> "json", status |-> 401, message |-> msg]
Pending == [out |-> "pending", status |-> 0, message |-> ""]

\* if (!token) { if (!ADMIN_API_KEY) return next(); return res.status(401)... }
NoToken_alwaysNext(admin) == [out |-> "next", status |-> 0, message |-> ""]

NoToken(admin) ==
    IF ~TruthyStr(admin) THEN [out |-> "next", status |-> 0, message |-> ""]
    ELSE Json401("Missing API Key")

\* ADMIN_API_KEY && token === ADMIN_API_KEY
IsAdmin(admin, token) == TruthyStr(admin) /\ token = admin

\* keyRecord && keyRecord.isActive
ActiveRecord(keyRecord) == keyRecord # None /\ keyRecord[1].isActive

IdleReq ==
    [pc |-> "idle", xkey |-> None, auth |-> None, token |-> None,
     keyRecord |-> None, stamp |-> 0, res |-> Pending,
     reads |-> 0, writes |-> 0, lookup |-> "none", upd |-> "none"]

\* The synchronous prefix of verifyApiKey, up to the first await.
verifyApiKey(r) ==
    /\ req[r].pc = "idle"
    /\ \E xkey \in XKeyHeaders, auth \in AuthHeaders :
         LET token == TokenOf(HeaderOf(xkey, auth))
             base  == [req[r] EXCEPT !.xkey = xkey, !.auth = auth, !.token = token]
         IN  req' = [req EXCEPT ![r] =
                 IF ~TruthyStr(token)
                   THEN [base EXCEPT !.pc = "done", !.res = NoToken(ADMIN_API_KEY)]
                 ELSE IF IsAdmin(ADMIN_API_KEY, token)
                   THEN [base EXCEPT !.pc = "done", !.res = Next_]
                 ELSE [base EXCEPT !.pc = "findFirst", !.reads = @ + 1]]
    /\ UNCHANGED <<ADMIN_API_KEY, apiKeys, writeLog, clock, toolVars>>

\* await db.query.apiKeys.findFirst(...) resolves; an active record leads to the
\* update being issued with lastUsedAt: new Date().
findFirstReturns(r) ==
    /\ req[r].pc = "findFirst"
    /\ LET keyRecord == findFirst(apiKeys, req[r].token[1])
           base == [req[r] EXCEPT !.keyRecord = keyRecord, !.lookup = "returned"]
       IN  req' = [req EXCEPT ![r] =
               IF ActiveRecord(keyRecord)
                 THEN [base EXCEPT !.pc = "update", !.stamp = clock, !.writes = @ + 1]
               ELSE [base EXCEPT !.pc = "done", !.res = Json401("Invalid API Key")]]
    /\ UNCHANGED <<ADMIN_API_KEY, apiKeys, writeLog, clock, toolVars>>

\* await db.query.apiKeys.findFirst(...) rejects: catch, log, fall through to 401.
findFirstThrows(r) ==
    /\ req[r].pc = "findFirst"
    /\ req' = [req EXCEPT ![r] = [@ EXCEPT !.lookup = "threw", !.pc = "done",
                                           !.res = Json401("Invalid API Key")]]
    /\ UNCHANGED <<ADMIN_API_KEY, apiKeys, writeLog, clock, toolVars>>

\* The store applies db.update(apiKeys).set({ lastUsedAt }).where(eq(apiKeys.id, keyRecord.id)).
updateCommits(r) ==
    /\ req[r].pc = "update"
    /\ LET id == req[r].keyRecord[1].id
       IN  /\ apiKeys' = [apiKeys EXCEPT ![id].lastUsedAt = Some(req[r].stamp)]
           /\ writeLog' = [writeLog EXCEPT ![id] = Append(@, req[r].stamp)]
    /\ req' = [req EXCEPT ![r].pc = "committed"]
    /\ UNCHANGED <<ADMIN_API_KEY, clock, toolVars>>

\* await db.update(...) resolves: return next().
updateReturns(r) ==
    /\ req[r].pc = "committed"
    /\ req' = [req EXCEPT ![r] = [@ EXCEPT !.upd = "returned", !.pc = "done",
                                           !.res = Next_]]
    /\ UNCHANGED <<ADMIN_API_KEY, apiKeys, writeLog, clock, toolVars>>

\* await db.update(...) rejects, before or after the store applied it: the same
\* catch block as the lookup, then the 401 at the end of the function.
updateThrows(r) ==
    /\ req[r].pc \in {"update", "committed"}
    /\ req' = [req EXCEPT ![r] = [@ EXCEPT !.upd = "threw", !.pc = "done",
                                           !.res = Json401("Invalid API Key")]]
    /\ UNCHANGED <<ADMIN_API_KEY, apiKeys, writeLog, clock, toolVars>>

-----------------------------------------------------------------------------
(* getAgentRecord and the tools: src/src/index.ts *)

\* 365 * 24 * 60 * 60 * 1000 ms, in days
CertValidity == 365

\* defaultValidity of the TicketIssuer, in seconds
defaultValidity == 300

AgentId == "agent-12345"

\* What agntor.getAgent resolves to: { id, trust: { level, certified },
\* status: { active } }, each substructure and each field possibly absent.
TrustValues ==
    {None} \cup {Some([level |-> l, certified |-> c]) :
                    l \in {None, Some("Gold")},
                    c \in {Some(TRUE), Some(FALSE)}}

StatusValues ==
    {None} \cup {Some([active |-> a]) : a \in {None, Some(TRUE), Some(FALSE)}}

Raws == [id : {Some(AgentId)}, trust : TrustValues, status : StatusValues]

\* x ?? d
Coalesce(x, d) == IF x = None THEN d ELSE x[1]

\* raw.trust ?? {}, raw.status ?? {}
EmptyTrust == [level |-> None, certified |-> None]
EmptyStatus == [active |-> None]

\* obj.f of a loosely typed object: undefined when the property is absent
Get(obj, f) == IF f \in DOMAIN obj THEN obj[f] ELSE None

\* profile.metadata ?? {}, raw.identity ?? {}, raw.profile ?? {}
EmptyObject == [none |-> None]

\* certification of the record: stamped with Date.now() when trust.certified
\* is truthy. Lists of strings are modelled by the sets of their elements.
CertificationOf_stampedOnce(trust, now) ==
    LET certified == Get(trust, "certified") = Some(TRUE)
        level == Get(trust, "level")
    IN  [certified_at |-> IF certified THEN 1 ELSE 0,
         expires_at |-> IF certified THEN 1 + CertValidity ELSE 0,
         certifier |-> "agntor.com",
         mva_level |-> IF level = Some("Platinum") THEN 5
                       ELSE IF level = Some("Gold") THEN 4
                       ELSE IF level = Some("Silver") THEN 3 ELSE 1]

CertificationOf(trust, now) ==
    LET certified == Get(trust, "certified") = Some(TRUE)
        level == Get(trust, "level")
    IN  [certified_at |-> IF certified THEN now ELSE 0,
         expires_at |-> IF certified THEN now + CertValidity ELSE 0,
         certifier |-> "agntor.com",
         mva_level |-> IF level = Some("Platinum") THEN 5
                       ELSE IF level = Some("Gold") THEN 4
                       ELSE IF level = Some("Silver") THEN 3 ELSE 1]

\* killSwitchActive: !(status.active ?? true)
KillSwitchOf_absentIsKilled(status) == ~Coalesce(Get(status, "active"), FALSE)

KillSwitchOf(status) == ~Coalesce(Get(status, "active"), TRUE)

\* metadata, health and constraints of the record; verified_domain,
\* max_ops_per_hour and requires_x402_payment are copied as they are, None
\* (undefined) or Some(v)
MetadataOf(identity, meta) ==
    [name |-> Coalesce(Get(identity, "handle"),
                       Coalesce(Get(meta, "name"), "Unknown Agent")),
     description |-> Coalesce(Get(meta, "description"), ""),
     capabilities |-> Coalesce(Get(meta, "capabilities"), {}),
     verified_domain |-> Get(meta, "verified_domain")]

HealthOf(meta, now) ==
    [uptime_percentage |-> Coalesce(Get(meta, "uptime_percentage"), 0),
     avg_latency_ms |-> Coalesce(Get(meta, "avg_latency_ms"), 0),
     error_rate |-> Coalesce(Get(meta, "error_rate"), 0),
     total_transactions |-> Coalesce(Get(meta, "total_transactions"), 0),
     last_active |-> Coalesce(Get(meta, "last_active"), now)]

ConstraintsOf(meta) ==
    [max_op_value |-> Coalesce(Get(meta, "max_op_value"), 10000),
     allowed_mcp_servers |-> Coalesce(Get(meta, "allowed_mcp_servers"), {}),
     max_ops_per_hour |-> Get(meta, "max_ops_per_hour"),
     requires_x402_payment |-> Get(meta, "requires_x402_payment")]

\* the record getAgentRecord builds from the raw response, at time now
Normalize_neverKilled(raw, agentId, now) ==
    LET identity == Coalesce(Get(raw, "identity"), EmptyObject)
        profile == Coalesce(Get(raw, "profile"), EmptyObject)
        trust  == Coalesce(Get(raw, "trust"), EmptyTrust)
        meta == Coalesce(Get(profile, "metadata"), EmptyObject)
    IN  [agentId |-> Coalesce(Get(raw, "id"), agentId),
         auditLevel |-> Coalesce(Get(trust, "level"), "Bronze"),
         trustScore |-> Coalesce(Get(trust, "score"), 0),
         organization |-> Coalesce(Get(profile, "organization"), "Unknown"),
         metadata |-> MetadataOf(identity, meta),
         certification |-> CertificationOf(trust, now),
         health |-> HealthOf(meta, now),
         killSwitchActive |-> FALSE,
         constraints |-> ConstraintsOf(meta)]

Normalize(raw, agentId, now) ==
    LET identity == Coalesce(Get(raw, "identity"), EmptyObject)
        profile == Coalesce(Get(raw, "profile"), EmptyObject)
        trust  == Coalesce(Get(raw, "trust"), EmptyTrust)
        status == Coalesce(Get(raw, "status"), EmptyStatus)
        meta == Coalesce(Get(profile, "metadata"), EmptyObject)
    IN  [agentId |-> Coalesce(Get(raw, "id"), agentId),
         auditLevel |-> Coalesce(Get(trust, "level"), "Bronze"),
         trustScore |-> Coalesce(Get(trust, "score"), 0),
         organization |-> Coalesce(Get(profile, "organization"), "Unknown"),
         metadata |-> MetadataOf(identity, meta),
         certification |-> CertificationOf(trust, now),
         health |-> HealthOf(meta, now),
         killSwitchActive |-> KillSwitchOf(status),
         constraints |-> ConstraintsOf(meta)]

\* agent.certification.expires_at > now && !agent.killSwitchActive
isCertified_expiryOnly(agent, now) == agent.certification.expires_at > now

isCertified(agent, now) ==
    agent.certification.expires_at > now /\ ~agent.killSwitchActive

\* the structuredContent of is_agent_certified; agent is None when
\* getAgentRecord returned null
is_agent_certified_nullFields(agentId, agent, now) ==
    IF agent = None
      THEN [certified |-> FALSE, agentId |-> agentId, auditLevel |-> None,
            expiresAt |-> None, killSwitchActive |-> None]
    ELSE [certified |-> isCertified(agent[1], now),
          agentId |-> agent[1].agentId,
          auditLevel |-> agent[1].auditLevel,
          expiresAt |-> agent[1].certification.expires_at,
          killSwitchActive |-> agent[1].killSwitchActive]

is_agent_certified(agentId, agent, now) ==
    IF agent = None THEN [certified |-> FALSE, agentId |-> agentId]
    ELSE [certified |-> isCertified(agent[1], now),
          agentId |-> agent[1].agentId,
          auditLevel |-> agent[1].auditLevel,
          expiresAt |-> agent[1].certification.expires_at,
          killSwitchActive |-> agent[1].killSwitchActive]

\* issuer.generateTicket of @agntor/sdk: the claims the ticket is signed with
generateTicket(payload) ==
    [iss |-> "agntor.com",
     agentId |-> payload.agentId,
     auditLevel |-> payload.auditLevel,
     constraints |-> payload.constraints,
     lifetime |-> Coalesce(payload.validitySeconds, defaultValidity)]

\* validitySeconds of IssueTicketRequest: an optional number of seconds
ValiditySeconds == {None, Some(0), Some(60), Some(300)}

\* validitySeconds || 300
OrDefault(validitySeconds, d) ==
    IF validitySeconds = None \/ validitySeconds[1] = 0 THEN d ELSE validitySeconds[1]

\* issue_audit_ticket: the structuredContent, and the payload handed to
\* issuer.generateTicket (None when the issuer is not invoked)
issue_audit_ticket_noKillCheck(agentId, validitySeconds, agent) ==
    IF agent = None
      THEN [out |-> [success |-> FALSE, agentId |-> agentId, error |-> "Agent not found"],
            signed |-> None]
    ELSE LET payload == [agentId |-> agent[1].agentId,
                         auditLevel |-> agent[1].auditLevel,
                         constraints |-> agent[1].constraints,
                         validitySeconds |-> validitySeconds]
         IN  [out |-> [success |-> TRUE, ticket |-> generateTicket(payload),
                       agentId |-> agentId,
                       expiresIn |-> OrDefault(validitySeconds, 300)],
              signed |-> Some(payload)]

issue_audit_ticket(agentId, validitySeconds, agent) ==
    IF agent = None
      THEN [out |-> [success |-> FALSE, agentId |-> agentId, error |-> "Agent not found"],
            signed |-> None]
    ELSE IF agent[1].killSwitchActive
      THEN [out |-> [success |-> FALSE, agentId |-> agentId,
                     error |-> "Agent kill switch active"],
            signed |-> None]
    ELSE LET payload == [agentId |-> agent[1].agentId,
                         auditLevel |-> agent[1].auditLevel,
                         constraints |-> agent[1].constraints,
                         validitySeconds |-> validitySeconds]
         IN  [out |-> [success |-> TRUE, ticket |-> generateTicket(payload),
                       agentId |-> agentId,
                       expiresIn |-> OrDefault(validitySeconds, 300)],
              signed |-> Some(payload)]

Tools == {"is_agent_certified", "issue_audit_ticket", "activate_kill_switch"}

IdleCall ==
    [pc |-> "idle", tool |-> "", agentId |-> AgentId, validitySeconds |-> None,
     fetch |-> "none", agent |-> None, builtAt |-> 0, now |-> 0,
     out |-> None, isError |-> FALSE, signed |-> None,
     includeHealth |-> FALSE, thrown |-> FALSE,
     trustStable |-> FALSE, statusStable |-> FALSE]

\* A tool call arrives; the handler runs up to its first await.
StartCall ==
    /\ call.pc \in {"idle", "done"}
    /\ \E tool \in Tools, validitySeconds \in ValiditySeconds :
         /\ tool # "issue_audit_ticket" => validitySeconds = None
         /\ call' = [IdleCall EXCEPT
                        !.pc = IF tool = "activate_kill_switch"
                                 THEN "activateKillSwitch" ELSE "getAgent",
                        !.tool = tool,
                        !.validitySeconds = validitySeconds,
                        !.trustStable = TRUE,
                        !.statusStable = TRUE]
    /\ UNCHANGED <<authVars, clock, upstream>>

\* getAgentRecord: await agntor.getAgent(agentId) resolves and the record is
\* built, certification stamped with Date.now().
getAgentReturns ==
    /\ call.pc = "getAgent"
    /\ call' = [call EXCEPT !.pc = "built", !.fetch = "ok",
                            !.agent = Some(Normalize(upstream, call.agentId, clock)),
                            !.builtAt = clock]
    /\ UNCHANGED <<authVars, clock, upstream>>

\* getAgentRecord: the fetch rejects, or resolves to nothing so that
\* raw.identity throws: catch, log, return null.
getAgentThrows ==
    /\ call.pc = "getAgent"
    /\ call' = [call EXCEPT !.pc = "built", !.fetch = "threw", !.agent = None,
                            !.builtAt = clock]
    /\ UNCHANGED <<authVars, clock, upstream>>

\* The handler continues after await getAgentRecord(agentId).
Respond ==
    /\ call.pc = "built"
    /\ \/ /\ call.tool = "is_agent_certified"
          /\ call' = [call EXCEPT !.pc = "done", !.now = clock,
                         !.out = Some(is_agent_certified(call.agentId, call.agent, clock))]
       \/ /\ call.tool = "issue_audit_ticket"
          /\ LET r == issue_audit_ticket(call.agentId, call.validitySeconds, call.agent)
             IN  call' = [call EXCEPT !.pc = "done", !.now = clock,
                                      !.out = Some(r.out), !.signed = r.signed]
    /\ UNCHANGED <<authVars, clock, upstream>>

\* activate_kill_switch: await agntor.activateKillSwitch(agentId, reason)
\* resolves; the backend has cleared the agent's active flag.
activateKillSwitchReturns ==
    /\ call.pc = "activateKillSwitch"
    /\ upstream' = [upstream EXCEPT !.status = Some([active |-> Some(FALSE)])]
    /\ call' = [call EXCEPT !.pc = "done", !.now = clock,
                   !.out = Some([success |-> TRUE, agentId |-> call.agentId])]
    /\ UNCHANGED <<authVars, clock>>

\* activate_kill_switch: the SDK call rejects: { content, isError: true }.
activateKillSwitchThrows ==
    /\ call.pc = "activateKillSwitch"
    /\ call' = [call EXCEPT !.pc = "done", !.now = clock, !.isError = TRUE]
    /\ UNCHANGED <<authVars, clock, upstream>>

\* recommendation: score >= 80 ? 'approve' : score >= 60 ? 'review' : 'reject'
Recommendation_exclusive(score) ==
    IF score > 80 THEN "approve" ELSE IF score > 60 THEN "review" ELSE "reject"

Recommendation(score) ==
    IF score >= 80 THEN "approve" ELSE IF score >= 60 THEN "review" ELSE "reject"

\* s || d on an optional string
OrElseStr(o, d) == IF TruthyStr(o) THEN o[1] ELSE d

\* the structuredContent of get_trust_score for the response agentData of
\* agntor.getAgent
get_trust_score(agentId, includeHealth, agentData) ==
    LET trust == Coalesce(Get(agentData, "trust"), EmptyObject)
        factors == Coalesce(Get(trust, "factors"), EmptyObject)
        score == Coalesce(Get(trust, "score"), 0)
    IN  [agentId |-> agentId,
         score |-> OrDefault(Some(score), 0),
         level |-> OrElseStr(Get(agentData, "auditLevel"), "None"),
         factors |->
            [certification |-> OrDefault(Get(factors, "certification"), 0),
             behavioral_health |-> OrDefault(Get(factors, "behavioral_health"), 0),
             transaction_history |-> OrDefault(Get(factors, "transaction_history"), 0),
             domain_verification |-> OrDefault(Get(factors, "domain_verification"), 0)],
         recommendation |-> Recommendation(score),
         details |-> IF includeHealth THEN Get(agentData, "health") ELSE None]

\* the card of get_agent_card (dates and signature left out)
get_agent_card(agent) ==
    [id |-> agent.agentId,
     name |-> agent.metadata.name,
     organization |-> agent.organization,
     version |-> "1.0.0",
     audit_level |-> agent.auditLevel,
     trust_score |-> agent.trustScore,
     capabilities |-> agent.metadata.capabilities,
     constraints |->
        [max_transaction_value |-> agent.constraints.max_op_value,
         allowed_domains |-> {},
         requires_human_approval |-> FALSE,
         requires_x402_payment |-> Coalesce(agent.constraints.requires_x402_payment, TRUE)],
     issuer |-> "agntor.com"]

\* the registration of get_agent_registration (registry ids left out)
get_agent_registration(agent) ==
    [type |-> "https://eips.ethereum.org/EIPS/eip-8004#registration-v1",
     name |-> agent.metadata.name,
     description |-> IF agent.metadata.description = ""
                       THEN "Agntor-registered agent" ELSE agent.metadata.description,
     x402Support |-> TRUE,
     active |-> ~agent.killSwitchActive]

\* the pulse of check_agent_pulse (heartbeat date left out)
check_agent_pulse(agent) ==
    [agent_id |-> agent.agentId,
     status |-> IF agent.killSwitchActive THEN "critical" ELSE "healthy",
     metrics |->
        [uptime_24h |-> agent.health.uptime_percentage,
         error_rate_1h |-> agent.health.error_rate,
         avg_latency_ms |-> agent.health.avg_latency_ms,
         spend_velocity_1h |-> 0]]

\* the tools that read the record and throw when there is none
RecordTools == {"get_agent_card", "get_agent_registration", "check_agent_pulse"}

\* the tools that wrap one SDK call in try / catch
SdkTools == {"query_agents", "create_escrow", "verify_agent_identity", "register_agent"}

\* A call of one of the other tools arrives; the handler runs up to its first
\* await. (guard_input, redact_output and guard_tool only hand their input to
\* the policy engines and are left out.)
StartQuery ==
    /\ call.pc \in {"idle", "done"}
    /\ \E tool \in RecordTools \cup SdkTools \cup {"get_trust_score"},
          includeHealth \in BOOLEAN :
         /\ tool # "get_trust_score" => includeHealth = FALSE
         /\ call' = [IdleCall EXCEPT
                        !.pc = IF tool \in RecordTools THEN "getAgent"
                               ELSE IF tool \in SdkTools THEN "sdk"
                               ELSE "getAgentData",
                        !.tool = tool,
                        !.includeHealth = includeHealth,
                        !.trustStable = TRUE,
                        !.statusStable = TRUE]
    /\ UNCHANGED <<authVars, clock, upstream>>

\* get_trust_score: await agntor.getAgent(agentId) resolves.
getTrustScoreReturns ==
    /\ call.pc = "getAgentData"
    /\ call' = [call EXCEPT !.pc = "done", !.fetch = "ok", !.now = clock,
                   !.out = Some(get_trust_score(call.agentId, call.includeHealth, upstream))]
    /\ UNCHANGED <<authVars, clock, upstream>>

\* get_trust_score: the fetch rejects, or resolves to nothing so that
\* agentData.auditLevel throws: catch, { content, isError: true }.
getTrustScoreThrows ==
    /\ call.pc = "getAgentData"
    /\ call' = [call EXCEPT !.pc = "done", !.fetch = "threw", !.now = clock,
                            !.isError = TRUE]
    /\ UNCHANGED <<authVars, clock, upstream>>

\* get_agent_card, get_agent_registration, check_agent_pulse continue after
\* await getAgentRecord(agentId): throw new Error when there is no record.
RespondRecord ==
    /\ call.pc = "built"
    /\ call.tool \in RecordTools
    /\ call' = IF call.agent = None
                 THEN [call EXCEPT !.pc = "done", !.now = clock, !.thrown = TRUE]
               ELSE [call EXCEPT !.pc = "done", !.now = clock,
                        !.out = Some(CASE call.tool = "get_agent_card" ->
                                            get_agent_card(call.agent[1])
                                       [] call.tool = "get_agent_registration" ->
                                            get_agent_registration(call.agent[1])
                                       [] OTHER -> check_agent_pulse(call.agent[1]))]
    /\ UNCHANGED <<authVars, clock, upstream>>

\* query_agents, create_escrow, verify_agent_identity, register_agent: the
\* SDK call resolves.
sdkReturns ==
    /\ call.pc = "sdk"
    /\ call' = [call EXCEPT !.pc = "done", !.now = clock,
                            !.out = Some([tool |-> call.tool])]
    /\ UNCHANGED <<authVars, clock, upstream>>

\* ... or rejects: catch, { content, isError: true }.
sdkThrows ==
    /\ call.pc = "sdk"
    /\ call' = [call EXCEPT !.pc = "done", !.now = clock, !.isError = TRUE]
    /\ UNCHANGED <<authVars, clock, upstream>>

\* The trust backend changes the agent's trust data on its own.
UpstreamTrustChanges ==
    /\ \E trust \in TrustValues :
         /\ trust # upstream.trust
         /\ upstream' = [upstream EXCEPT !.trust = trust]
    /\ call' = [call EXCEPT !.trustStable = FALSE]
    /\ UNCHANGED <<authVars, clock>>

\* The trust backend changes the agent's status on its own.
UpstreamStatusChanges ==
    /\ \E status \in StatusValues :
         /\ status # upstream.status
         /\ upstream' = [upstream EXCEPT !.status = status]
    /\ call' = [call EXCEPT !.statusStable = FALSE]
    /\ UNCHANGED <<authVars, clock>>

-----------------------------------------------------------------------------
(* The clock *)

\* The wall clock advances by a day. The continuation of a handler after
\* await getAgentRecord runs within MaxSkew days of the record being built.
Tick ==
    /\ (clock - 1) % CertValidity < MaxTicks
    /\ call.pc = "built" => clock - call.builtAt < MaxSkew
    /\ clock' = clock + 1
    /\ UNCHANGED <<authVars, toolVars>>

\* A year passes between two steps, none of them inside a handler's
\* continuation.
Elapse ==
    /\ (clock - 1) \div CertValidity < MaxJumps
    /\ call.pc # "built"
    /\ clock' = clock + CertValidity
    /\ UNCHANGED <<authVars, toolVars>>

-----------------------------------------------------------------------------
(* Specifications *)

InitAuth ==
    /\ ADMIN_API_KEY \in AdminKeys
    /\ apiKeys = SeedKeys
    /\ writeLog = [id \in DOMAIN SeedKeys |-> <<>>]
    /\ req = [r \in Requests |-> IdleReq]
    /\ clock = 1
    /\ upstream = [id |-> Some(AgentId), trust |-> None, status |-> None]
    /\ call = IdleCall

NextAuth ==
    \/ \E r \in Requests : verifyApiKey(r)
    \/ \E r \in Requests : findFirstReturns(r)
    \/ \E r \in Requests : findFirstThrows(r)
    \/ \E r \in Requests : updateCommits(r)
    \/ \E r \in Requests : updateReturns(r)
    \/ \E r \in Requests : updateThrows(r)
    \/ Tick

SpecAuth == InitAuth /\ [][NextAuth]_vars

Init ==
    /\ ADMIN_API_KEY = None
    /\ apiKeys = SeedKeys
    /\ writeLog = [id \in DOMAIN SeedKeys |-> <<>>]
    /\ req = [r \in Requests |-> IdleReq]
    /\ clock = 1
    /\ upstream \in Raws
    /\ call = IdleCall

Next ==
    \/ StartCall
    \/ getAgentReturns
    \/ getAgentThrows
    \/ Respond
    \/ activateKillSwitchReturns
    \/ activateKillSwitchThrows
    \/ UpstreamTrustChanges
    \/ UpstreamStatusChanges
    \/ Tick
    \/ Elapse

Spec == Init /\ [][Next]_vars

\* The certification gate and the issuing handler as functions of a record and
\* of the time the handler reads: the handler resumes with any record
\* getAgentRecord can build, any time from the build on.
GateDelays == {0, 1, CertValidity - 1, CertValidity, CertValidity + 1}

InitGate ==
    /\ ADMIN_API_KEY = None
    /\ apiKeys = SeedKeys
    /\ writeLog = [id \in DOMAIN SeedKeys |-> <<>>]
    /\ req = [r \in Requests |-> IdleReq]
    /\ upstream \in Raws
    /\ \E tool \in {"is_agent_certified", "issue_audit_ticket"},
          validitySeconds \in ValiditySeconds, builtAt \in {1, 2}, delay \in GateDelays :
         /\ tool = "is_agent_certified" => validitySeconds = None
         /\ clock = builtAt + delay
         /\ call = [IdleCall EXCEPT
                       !.pc = "built", !.tool = tool, !.fetch = "ok",
                       !.validitySeconds = validitySeconds,
                       !.agent = Some(Normalize(upstream, AgentId, builtAt)),
                       !.builtAt = builtAt]

NextGate == Respond

SpecGate == InitGate /\ [][NextGate]_vars

\* The tools as functions of one upstream snapshot: every shape of response
\* agntor.getAgent can give, every tool called on it.
RecordTrustValues ==
    {None} \cup {[level |-> l, certified |-> c, score |-> sc, factors |-> f] :
                    l \in {None, Some("Silver"), Some("Gold"), Some("Platinum"), Some("Ruby")},
                    c \in {None, Some(TRUE), Some(FALSE)},
                    sc \in {None, Some(0), Some(59), Some(60), Some(79), Some(80), Some(100)},
                    f \in {None, Some([certification |-> Some(100)])}}

FullMetadata ==
    [name |-> Some("Trader"), description |-> Some("trades"),
     capabilities |-> Some({"trading"}), verified_domain |-> Some("acme.ai"),
     uptime_percentage |-> Some(99), max_op_value |-> Some(500),
     max_ops_per_hour |-> Some(10), requires_x402_payment |-> Some(FALSE)]

RecordProfileValues ==
    {None, Some([organization |-> Some("Acme AI Corp"), metadata |-> None]),
     Some([organization |-> None, metadata |-> Some(FullMetadata)])}

RecordRaws ==
    {[id |-> i, auditLevel |-> al, identity |-> idn, profile |-> p,
      trust |-> IF t = None THEN None ELSE Some(t), status |-> st] :
        i \in {None, Some("agent://12345")},
        al \in {None, Some("Silver")},
        idn \in {None, Some([handle |-> Some("trader-bot")])},
        p \in RecordProfileValues,
        t \in RecordTrustValues,
        st \in StatusValues}

InitRecord ==
    /\ ADMIN_API_KEY = None
    /\ apiKeys = SeedKeys
    /\ writeLog = [id \in DOMAIN SeedKeys |-> <<>>]
    /\ req = [r \in Requests |-> IdleReq]
    /\ clock = 1
    /\ upstream \in RecordRaws
    /\ call = IdleCall

NextRecord ==
    \/ StartCall
    \/ StartQuery
    \/ getAgentReturns
    \/ getAgentThrows
    \/ Respond
    \/ RespondRecord
    \/ getTrustScoreReturns
    \/ getTrustScoreThrows
    \/ sdkReturns
    \/ sdkThrows
    \/ activateKillSwitchReturns
    \/ activateKillSwitchThrows

SpecRecord == InitRecord /\ [][NextRecord]_vars

-----------------------------------------------------------------------------
(* Properties of verifyApiKey *)

Done(r) == req[r].pc = "done"
Allowed(r) == req[r].res.out = "next"

\* The request carries no credential: no x-agntor-api-key value, and no
\* authorization value or a Bearer authorization with an empty key.
NoCredential(r) ==
    /\ ~TruthyStr(req[r].xkey)
    /\ ~TruthyStr(req[r].auth) \/ req[r].auth = Some("Bearer ")

\* The only auth header is an authorization header without the Bearer prefix.
BareAuthorization(r) ==
    /\ ~TruthyStr(req[r].xkey)
    /\ TruthyStr(req[r].auth)
    /\ ~startsWith(req[r].auth[1], "Bearer ")

\* C1: a request with a credential is allowed without any store access when
\* the credential is the admin key; otherwise it is allowed exactly when the
\* lookup returned an active record, and rejected with 401 'Invalid API Key'
\* in every other case.
C1_AllowedIffActive ==
    \A r \in Requests :
        Done(r) /\ TruthyStr(req[r].token) =>
            IF IsAdmin(ADMIN_API_KEY, req[r].token)
              THEN Allowed(r) /\ req[r].reads = 0 /\ req[r].writes = 0
            ELSE /\ Allowed(r) <=>
                        req[r].lookup = "returned" /\ ActiveRecord(req[r].keyRecord)
                 /\ ~Allowed(r) => req[r].res = Json401("Invalid API Key")

\* C2: once the lookup has returned an active record, the request is never
\* rejected, whatever becomes of the lastUsedAt update.
C2_UpdateNeverRejects ==
    \A r \in Requests :
        req[r].lookup = "returned" /\ ActiveRecord(req[r].keyRecord) =>
            req[r].res.out # "json"

\* C3: a request without a credential is allowed iff no admin key is
\* configured, is rejected with 401 'Missing API Key' when one is, and never
\* touches the key store.
C3_NoCredential ==
    \A r \in Requests :
        Done(r) /\ NoCredential(r) =>
            /\ Allowed(r) <=> ~TruthyStr(ADMIN_API_KEY)
            /\ TruthyStr(ADMIN_API_KEY) => req[r].res = Json401("Missing API Key")
            /\ req[r].reads = 0 /\ req[r].writes = 0 /\ req[r].lookup = "none"

C3_Witness ==
    \E r \in Requests :
        /\ Done(r) /\ NoCredential(r) /\ req[r].auth = Some("Bearer ")
        /\ ADMIN_API_KEY = Some("adm")
        /\ req[r].res = Json401("Missing API Key")

\* C4: a request whose only auth header is an authorization header without
\* the 'Bearer ' prefix gets the no-credential outcome and no store lookup.
C4_BareAuthorizationIsNoCredential ==
    \A r \in Requests :
        req[r].pc # "idle" /\ BareAuthorization(r) =>
            /\ Done(r)
            /\ req[r].res = NoToken(ADMIN_API_KEY)
            /\ req[r].reads = 0

\* The outcome of one request run alone: a function of its own headers, the
\* admin key, the isActive values of the store and the results of its own two
\* store calls.
SoloOutcome(admin, xkey, auth, lookup, upd) ==
    LET header == IF TruthyStr(xkey) THEN xkey ELSE auth
        token  == IF header = None THEN None
                  ELSE IF startsWith(header[1], "Bearer ")
                         THEN Some(slice(header[1], 7)) ELSE header
        active == \E id \in DOMAIN SeedKeys :
                     SeedKeys[id].key = token[1] /\ SeedKeys[id].isActive
    IN  IF ~TruthyStr(token)
          THEN IF TruthyStr(admin) THEN Json401("Missing API Key") ELSE Next_
        ELSE IF TruthyStr(admin) /\ token = admin THEN Next_
        ELSE IF lookup = "returned" /\ active /\ upd # "threw" THEN Next_
        ELSE Json401("Invalid API Key")

\* C5: under any interleaving, an answered request has the outcome it gets
\* when run alone, and lastUsedAt of a key is the last committed write, which
\* is the new Date() of one of the requests that presented that key.
C5_InterleavingIndependent ==
    /\ \A r \in Requests :
          Done(r) => req[r].res = SoloOutcome(ADMIN_API_KEY, req[r].xkey, req[r].auth,
                                              req[r].lookup, req[r].upd)
    /\ \A id \in DOMAIN apiKeys :
          /\ apiKeys[id].isActive = SeedKeys[id].isActive
          /\ IF writeLog[id] = <<>> THEN apiKeys[id].lastUsedAt = None
             ELSE apiKeys[id].lastUsedAt = Some(writeLog[id][Len(writeLog[id])])
          /\ \A i \in 1..Len(writeLog[id]) :
                \E r \in Requests :
                    /\ req[r].keyRecord # None /\ req[r].keyRecord[1].id = id
                    /\ req[r].stamp = writeLog[id][i]

\* two requests with the same active key, the later new Date() committed first
C5_Witness ==
    /\ \A r \in Requests : Done(r) /\ Allowed(r) /\ req[r].upd = "returned"
    /\ Len(writeLog[1]) = 2
    /\ writeLog[1][1] > writeLog[1][2]
    /\ apiKeys[1].lastUsedAt = Some(writeLog[1][2])

-----------------------------------------------------------------------------
(* Properties of the tools *)

Answered(tool) == call.pc = "done" /\ call.tool = tool

\* C6: is_agent_certified reports certified = true exactly when the fetched
\* record's expires_at is later than now and its kill switch is off; with the
\* kill switch on it reports false whatever the expiry.
C6_CertifiedIffUnexpiredAndNotKilled ==
    Answered("is_agent_certified") /\ call.agent # None =>
        LET agent == call.agent[1]
            out == call.out[1]
        IN  /\ out.certified <=>
                  (agent.certification.expires_at > call.now
                     /\ agent.killSwitchActive = FALSE)
            /\ agent.killSwitchActive => out.certified = FALSE

\* a record that was certified and whose expiry has passed, kill switch off
C6_Witness ==
    /\ Answered("is_agent_certified") /\ call.agent # None
    /\ ~call.agent[1].killSwitchActive
    /\ call.agent[1].certification.expires_at > 0
    /\ call.agent[1].certification.expires_at < call.now
    /\ call.out[1].certified = FALSE

\* C7: issue_audit_ticket does not invoke the issuer and answers
\* success = false, 'Agent kill switch active' for a record whose kill switch
\* is on, whatever its expiry, and success = false, 'Agent not found' when
\* there is no record.
C7_NoTicketWhenKilledOrMissing ==
    Answered("issue_audit_ticket") =>
        /\ call.agent = None =>
              /\ call.signed = None
              /\ call.out[1] = [success |-> FALSE, agentId |-> call.agentId,
                                error |-> "Agent not found"]
        /\ call.agent # None /\ call.agent[1].killSwitchActive =>
              /\ call.signed = None
              /\ call.out[1] = [success |-> FALSE, agentId |-> call.agentId,
                                error |-> "Agent kill switch active"]

\* a record certified for another year, kill switch on, refused
C7_Witness ==
    /\ Answered("issue_audit_ticket") /\ call.agent # None
    /\ call.agent[1].killSwitchActive
    /\ call.agent[1].certification.expires_at > call.now
    /\ call.out[1].error = "Agent kill switch active"

\* C8: the issuer is invoked only for a record that passes the certification
\* gate: expires_at later than now and kill switch off.
C8_SignsOnlyCertified ==
    Answered("issue_audit_ticket") /\ call.signed # None =>
        /\ call.agent[1].certification.expires_at > call.now
        /\ ~call.agent[1].killSwitchActive

\* C9: a successful issue_audit_ticket signs a ticket whose lifetime is 300
\* seconds when validitySeconds is omitted and validitySeconds when it is
\* supplied, and reports that same number as expiresIn.
C9_ExpiresInIsSignedValidity ==
    Answered("issue_audit_ticket") /\ call.signed # None =>
        LET signedWith == IF call.signed[1].validitySeconds = None THEN defaultValidity
                          ELSE call.signed[1].validitySeconds[1]
        IN  /\ call.out[1].ticket.lifetime =
                  (IF call.validitySeconds = None THEN 300 ELSE call.validitySeconds[1])
            /\ call.out[1].expiresIn = signedWith

\* the upstream record has status.active = false
KillSwitchedUpstream ==
    upstream.status # None /\ upstream.status[1].active = Some(FALSE)

\* the upstream record has trust.level 'Gold', trust.certified true, status.active true
GoldCertifiedActive ==
    /\ upstream.trust = Some([level |-> Some("Gold"), certified |-> Some(TRUE)])
    /\ upstream.status = Some([active |-> Some(TRUE)])

\* C10: a call made while upstream status.active is false, and stays false,
\* never reports certified = true and never issues a ticket, and when the
\* record was fetched it reports killSwitchActive = true and the kill-switch
\* failure; a call made while the upstream record is Gold, certified and
\* active, and stays so, reports certified = true with auditLevel 'Gold' and
\* issues a ticket carrying auditLevel 'Gold' when the record was fetched.
C10_KillSwitchFlipsCertification ==
    /\ call.pc = "done" /\ call.statusStable /\ KillSwitchedUpstream =>
          /\ call.tool = "is_agent_certified" =>
                /\ call.out[1].certified = FALSE
                /\ call.fetch = "ok" => call.out[1].killSwitchActive = TRUE
          /\ call.tool = "issue_audit_ticket" =>
                /\ call.signed = None
                /\ call.out[1].success = FALSE
                /\ call.fetch = "ok" => call.out[1].error = "Agent kill switch active"
    /\ call.pc = "done" /\ call.statusStable /\ call.trustStable
         /\ GoldCertifiedActive /\ call.fetch = "ok" =>
          /\ call.tool = "is_agent_certified" =>
                /\ call.out[1].certified = TRUE
                /\ call.out[1].auditLevel = "Gold"
                /\ call.out[1].killSwitchActive = FALSE
          /\ call.tool = "issue_audit_ticket" =>
                /\ call.out[1].success = TRUE
                /\ call.out[1].ticket.auditLevel = "Gold"

\* a Gold, certified agent whose active flag is false: certified = false with
\* killSwitchActive = true although the certification has a year to run
C10_Witness ==
    /\ Answered("is_agent_certified") /\ call.statusStable /\ call.fetch = "ok"
    /\ KillSwitchedUpstream
    /\ upstream.trust = Some([level |-> Some("Gold"), certified |-> Some(TRUE)])
    /\ call.out[1].expiresAt > call.now
    /\ call.out[1].certified = FALSE
    /\ call.out[1].killSwitchActive = TRUE

-----------------------------------------------------------------------------
(* Properties of the normalizer and of the other tools *)

\* the score of the upstream snapshot, 0 when it is absent
UpstreamScore ==
    LET trust == Coalesce(Get(upstream, "trust"), EmptyObject)
    IN  Coalesce(Get(trust, "score"), 0)

\* C11: get_trust_score recommends 'approve' for a score of 80 or more,
\* 'review' for 60 to 79 and 'reject' below 60, an absent score counting as 0,
\* whatever the certification and kill-switch state.
C11_RecommendationThresholds ==
    Answered("get_trust_score") /\ call.fetch = "ok" =>
        LET rec == call.out[1].recommendation
        IN  /\ UpstreamScore >= 80 => rec = "approve"
            /\ UpstreamScore >= 60 /\ UpstreamScore < 80 => rec = "review"
            /\ UpstreamScore < 60 => rec = "reject"

\* a score of exactly 80 on an uncertified, kill-switched agent: 'approve'
C11_Witness ==
    /\ Answered("get_trust_score") /\ call.fetch = "ok"
    /\ UpstreamScore = 80
    /\ KillSwitchedUpstream
    /\ upstream.trust[1].certified = Some(FALSE)
    /\ call.out[1].recommendation = "approve"

\* C12: no field of a record built by getAgentRecord is undefined, the
\* optional ones included.
C12_NoUndefinedField ==
    call.agent # None =>
        LET agent == call.agent[1]
        IN  /\ agent.trustScore \in Int
            /\ agent.certification.mva_level \in Int
            /\ agent.health.last_active \in Int
            /\ agent.constraints.max_op_value \in Int
            /\ agent.metadata.verified_domain # None
            /\ agent.constraints.max_ops_per_hour # None
            /\ agent.constraints.requires_x402_payment # None

\* mva_level by the table {Platinum: 5, Gold: 4, Silver: 3, *: 1}
LevelTable(auditLevel) ==
    CASE auditLevel = "Platinum" -> 5
      [] auditLevel = "Gold" -> 4
      [] auditLevel = "Silver" -> 3
      [] OTHER -> 1

\* C13: the auditLevel of a record built by getAgentRecord is Bronze, Silver,
\* Gold or Platinum, and mva_level is the table value for it, never 0.
C13_AuditLevelInEnum ==
    call.agent # None =>
        /\ call.agent[1].auditLevel \in {"Bronze", "Silver", "Gold", "Platinum"}
        /\ call.agent[1].certification.mva_level = LevelTable(call.agent[1].auditLevel)
        /\ call.agent[1].certification.mva_level # 0

\* the call failed: no agent record where the tool needs one, a refusal by the
\* kill switch, or an upstream error
Failed ==
    \/ call.tool \in RecordTools \cup {"issue_audit_ticket"} /\ call.agent = None
    \/ call.tool = "issue_audit_ticket" /\ call.agent # None
          /\ call.agent[1].killSwitchActive
    \/ call.tool \in SdkTools \cup {"get_trust_score", "activate_kill_switch"}
          /\ call.out = None

\* C14: a finished tool call has not thrown; it has answered
\* { content, structuredContent } if it succeeded and { content, isError: true }
\* if it failed.
C14_TwoEnvelopes ==
    call.pc = "done" =>
        /\ ~call.thrown
        /\ Failed => call.isError /\ call.out = None
        /\ ~Failed => ~call.isError /\ call.out # None

\* C15: when the fetch fails getAgentRecord returns null without throwing,
\* and is_agent_certified answers exactly { certified: false, agentId } with
\* the requested agentId.
C15_FetchFailureIsNotFound ==
    call.fetch = "threw" /\ call.tool \in {"is_agent_certified", "issue_audit_ticket"}
                                 \cup RecordTools =>
        /\ call.agent = None
        /\ Answered("is_agent_certified") =>
              /\ ~call.thrown /\ ~call.isError
              /\ DOMAIN call.out[1] = {"certified", "agentId"}
              /\ call.out[1].certified = FALSE
              /\ call.out[1].agentId = call.agentId

C15_Witness ==
    /\ Answered("is_agent_certified") /\ call.fetch = "threw"
    /\ call.out = Some([certified |-> FALSE, agentId |-> AgentId])

\* the upstream object lacks identity, profile, trust and status
BareUpstream ==
    \A f \in {"identity", "profile", "trust", "status"} : Get(upstream, f) = None

\* upstream status.active is present and false
ActivePresentAndFalse ==
    /\ Get(upstream, "status") # None
    /\ Get(upstream.status[1], "active") = Some(FALSE)

\* C16: a raw object without any substructure gives a record with auditLevel
\* 'Bronze', trustScore 0, no capabilities, certified_at = expires_at = 0,
\* mva_level 1 and killSwitchActive false; killSwitchActive is true exactly
\* when upstream status.active is present and false.
C16_DefaultsForBareRecord ==
    call.pc = "built" /\ call.fetch = "ok" =>
        /\ call.agent # None
        /\ BareUpstream =>
              /\ call.agent[1].auditLevel = "Bronze"
              /\ call.agent[1].trustScore = 0
              /\ call.agent[1].metadata.capabilities = {}
              /\ call.agent[1].certification.certified_at = 0
              /\ call.agent[1].certification.expires_at = 0
              /\ call.agent[1].certification.mva_level = 1
              /\ call.agent[1].killSwitchActive = FALSE
        /\ call.agent[1].killSwitchActive <=> ActivePresentAndFalse

C16_Witness ==
    /\ call.pc = "built" /\ call.fetch = "ok"
    /\ BareUpstream
    /\ upstream.id = None
    /\ call.agent[1].agentId = AgentId
    /\ call.agent[1].auditLevel = "Bronze"
    /\ ~call.agent[1].killSwitchActive

\* upstream trust.certified is truthy
UpstreamCertified ==
    /\ Get(upstream, "trust") # None
    /\ Get(upstream.trust[1], "certified") = Some(TRUE)

\* C17: is_agent_certified never reports an expired certification: certified
\* is (trust.certified is truthy) and (status.active is not false), however
\* much time has passed, and the expiresAt it reports is a year after this
\* call's own fetch.
C17_ExpiredUnreachable ==
    Answered("is_agent_certified") /\ call.fetch = "ok"
         /\ call.trustStable /\ call.statusStable =>
        /\ call.out[1].certified <=> (UpstreamCertified /\ ~ActivePresentAndFalse)
        /\ UpstreamCertified =>
              /\ call.out[1].expiresAt = call.builtAt + CertValidity
              /\ call.out[1].expiresAt > call.now
        /\ ~UpstreamCertified => call.out[1].expiresAt = 0

\* a call made more than a year into the run: still certified, expiresAt later
\* than any an earlier call can have reported
C17_Witness ==
    /\ Answered("is_agent_certified") /\ call.fetch = "ok"
    /\ call.trustStable /\ call.statusStable
    /\ call.builtAt > CertValidity
    /\ call.now > call.builtAt
    /\ call.out[1].certified = TRUE
    /\ call.out[1].expiresAt > 2 * CertValidity

\* C18: for one upstream snapshot, the level of get_trust_score is the
\* auditLevel is_agent_certified reports and issue_audit_ticket signs.
C18_LevelIsAuditLevel ==
    Answered("get_trust_score") /\ call.fetch = "ok" =>
        LET agent == Some(Normalize(upstream, call.agentId, clock))
        IN  /\ call.out[1].level = is_agent_certified(call.agentId, agent, clock).auditLevel
            /\ ~agent[1].killSwitchActive =>
                  call.out[1].level =
                      issue_audit_ticket(call.agentId, None, agent).out.ticket.auditLevel

====
